---- MODULE Spec2Model ----
(***************************************************************************)
(* FlowVk: the named-buffer registry, the kernel registry and the          *)
(* synchronous dispatch engine (src/src/Buffer.cpp, src/src/Instance.cpp). *)
(* One owning context (InstanceImpl) is modelled.  Every public operation  *)
(* is one action; the device calls an operation makes are written, in the  *)
(* order the code makes them, into last.events.                            *)
(***************************************************************************)
EXTENDS Integers, Sequences, FiniteSets, TLC

VARIABLES buffers, mem, kernels, objects, meta, inflight, ctx, last

vars == <<buffers, mem, kernels, objects, meta, inflight, ctx, last>>

(* ---------------------------- bounds ----------------------------------- *)
MaxSize == 2
MaxHandles == 2
MaxLeaks == 3
MaxRefs == 2

(* ---------------------------- constants -------------------------------- *)
NULL == 0

BufferNames == {"A", "B"}
DeclareNames == BufferNames \cup {""}
Accesses == {"ReadOnly", "WriteOnly"}
Byte == {0, 1}
Sizes == 0..MaxSize
Data(n) == [1..n -> Byte]
Zeros(n) == [i \in 1..n |-> 0]

Ok(r) == r.err = "ok"

Remove(f, k) == [x \in (DOMAIN f) \ {k} |-> f[x]]

RECURSIVE IndexOf(_, _, _)
IndexOf(s, tag, i) ==
  IF i > Len(s) THEN 0
  ELSE IF s[i][1] = tag THEN i
  ELSE IndexOf(s, tag, i + 1)

Pos(s, tag) == IndexOf(s, tag, 1)
Has(s, tag) == Pos(s, tag) # 0

RECURSIVE LastIndexOf(_, _, _)
LastIndexOf(s, tag, i) ==
  IF i = 0 THEN 0
  ELSE IF s[i][1] = tag THEN i
  ELSE LastIndexOf(s, tag, i - 1)

LastPos(s, tag) == LastIndexOf(s, tag, Len(s))

(* ---------------------------- buffer state ----------------------------- *)
BufferState(access) == [access |-> access, buffer |-> NULL, sizeBytes |-> 0]

NoEntry == [access |-> "none", buffer |-> NULL, sizeBytes |-> 0]

get_state(name) == IF name \in DOMAIN buffers THEN buffers[name] ELSE NoEntry

DataOf(m, h) == IF h \in DOMAIN m THEN m[h] ELSE <<>>

(* Device objects other than buffer memory.  The code never inspects a   *)
(* handle beyond testing it against VK_NULL_HANDLE, so a non-null handle  *)
(* is the value Valid and the device keeps a census of live objects.      *)
Valid == 1

Kinds == {"DescriptorSetLayout", "PipelineLayout", "ShaderModule", "Pipeline",
          "DescriptorPool", "CommandBuffer", "Fence"}

CreateObj(objs, kind) == [objs EXCEPT ![kind] = @ + 1]

DestroyObj(objs, kind) == [objs EXCEPT ![kind] = @ - 1]

RECURSIVE Total(_, _)
Total(f, S) ==
  IF S = {} THEN 0
  ELSE LET x == CHOOSE y \in S : TRUE IN f[x] + Total(f, S \ {x})

OwnedBy(kns) ==
  Total([k \in DOMAIN kns |-> Len(kns[k].setLayouts) + 3], DOMAIN kns)

Leaked(objs, kns) == Total(objs, Kinds) - OwnedBy(kns)

LeakBound(objs, kns) == Leaked(objs, kns) <= MaxLeaks

(* ---------------------- one-time command helper ------------------------ *)
SubmitSteps ==
  <<"vkAllocateCommandBuffers", "vkBeginCommandBuffer", "vkEndCommandBuffer",
    "vkCreateFence", "vkQueueSubmit", "vkWaitForFences">>

SubmitFailures == {"none"} \cup { SubmitSteps[i] : i \in 1..Len(SubmitSteps) }

RECURSIVE Execute(_, _)
Execute(m, cmds) ==
  IF cmds = <<>> THEN m
  ELSE LET c == Head(cmds)
           m1 == IF c[1] = "vkCmdFillBuffer" /\ c[2] \in DOMAIN m
                 THEN [m EXCEPT ![c[2]] =
                         [i \in 1..Len(m[c[2]]) |-> IF i <= c[3] THEN 0 ELSE m[c[2]][i]]]
                 ELSE IF c[1] = "vkCmdDispatch"
                 THEN [h \in DOMAIN m |->
                         IF h \in c[2] THEN [i \in 1..Len(m[h]) |-> c[3]] ELSE m[h]]
                 ELSE m
       IN Execute(m1, Tail(cmds))

RECURSIVE Drain(_, _)
Drain(m, fl) == IF fl = <<>> THEN m ELSE Drain(Execute(m, Head(fl)), Tail(fl))

submit_one_time_ReturnsAfterSubmit(cmds, m, objs, fl, failAt, executed) ==
  [mem |-> m, objects |-> objs, inflight |-> Append(fl, cmds), err |-> "ok",
   events |-> <<<<"vkAllocateCommandBuffers", Valid>>, <<"vkBeginCommandBuffer", Valid>>>>
              \o cmds
              \o <<<<"vkEndCommandBuffer", Valid>>, <<"vkCreateFence", Valid>>,
                   <<"vkQueueSubmit", Valid>>>>]

submit_one_time(cmds, m, objs, fl, failAt, executed) ==
  IF failAt = "vkAllocateCommandBuffers"
  THEN [mem |-> m, objects |-> objs, inflight |-> fl, err |-> failAt,
        events |-> <<<<"vkAllocateCommandBuffers", NULL>>>>]
  ELSE
    LET cmd == Valid
        o1 == CreateObj(objs, "CommandBuffer")
        e1 == <<<<"vkAllocateCommandBuffers", cmd>>>>
    IN IF failAt = "vkBeginCommandBuffer"
       THEN [mem |-> m, objects |-> o1, inflight |-> fl, err |-> failAt,
             events |-> e1 \o <<<<"vkBeginCommandBuffer", NULL>>>>]
       ELSE
         LET e2 == e1 \o <<<<"vkBeginCommandBuffer", cmd>>>> \o cmds
         IN IF failAt = "vkEndCommandBuffer"
            THEN [mem |-> m, objects |-> o1, inflight |-> fl, err |-> failAt,
                  events |-> e2 \o <<<<"vkEndCommandBuffer", NULL>>>>]
            ELSE
              LET e3 == e2 \o <<<<"vkEndCommandBuffer", cmd>>>>
              IN IF failAt = "vkCreateFence"
                 THEN [mem |-> m, objects |-> o1, inflight |-> fl, err |-> failAt,
                       events |-> e3 \o <<<<"vkCreateFence", NULL>>>>]
                 ELSE
                   LET fence == Valid
                       o2 == CreateObj(o1, "Fence")
                       e4 == e3 \o <<<<"vkCreateFence", fence>>>>
                   IN IF failAt = "vkQueueSubmit"
                      THEN [mem |-> m, objects |-> o2, inflight |-> fl, err |-> failAt,
                            events |-> e4 \o <<<<"vkQueueSubmit", NULL>>>>]
                      ELSE
                        LET e5 == e4 \o <<<<"vkQueueSubmit", cmd>>>>
                        IN IF failAt = "vkWaitForFences"
                           THEN [mem |-> IF executed THEN Execute(Drain(m, fl), cmds) ELSE m,
                                 inflight |-> IF executed THEN <<>> ELSE Append(fl, cmds),
                                 objects |-> o2, err |-> failAt,
                                 events |-> e5 \o <<<<"vkWaitForFences", NULL>>>>]
                           ELSE [mem |-> Execute(Drain(m, fl), cmds), inflight |-> <<>>,
                                 objects |-> objs, err |-> "ok",
                                 events |-> e5 \o <<<<"vkWaitForFences", fence>>,
                                                    <<"vkDestroyFence", fence>>,
                                                    <<"vkFreeCommandBuffers", cmd>>>>]

(* ---------------------------- Buffer.cpp ------------------------------- *)
ZeroSizeRequest(bytes) == bytes = 0

SameSizeAllocated_NeverSkips(state, bytes) == FALSE

SameSizeAllocated(state, bytes) == state.sizeBytes = bytes /\ state.buffer # NULL

alloc_or_resize_ZeroReleases(state, m, bytes, created, fresh) ==
  IF SameSizeAllocated(state, bytes)
  THEN [state |-> state, mem |-> m, err |-> "ok", events |-> <<>>]
  ELSE
    LET had == state.buffer # NULL
        m1 == IF had THEN Remove(m, state.buffer) ELSE m
        s1 == [state EXCEPT !.buffer = NULL]
        e1 == IF had THEN <<<<"vmaDestroyBuffer", state.buffer>>>> ELSE <<>>
    IN IF bytes = 0
       THEN [state |-> [s1 EXCEPT !.sizeBytes = 0], mem |-> m1, err |-> "ok",
             events |-> e1]
       ELSE IF created = NULL
       THEN [state |-> s1, mem |-> m1, err |-> "AllocationFailed",
             events |-> e1 \o <<<<"vmaCreateBuffer", NULL>>>>]
       ELSE [state |-> [s1 EXCEPT !.buffer = created, !.sizeBytes = bytes],
             mem |-> m1 @@ (created :> fresh), err |-> "ok",
             events |-> e1 \o <<<<"vmaCreateBuffer", created>>>>]

alloc_or_resize_KeepsAllocated(state, m, bytes, created, fresh) ==
  IF ZeroSizeRequest(bytes) \/ state.buffer # NULL
  THEN [state |-> state, mem |-> m, err |-> "ok", events |-> <<>>]
  ELSE IF created = NULL
  THEN [state |-> state, mem |-> m, err |-> "AllocationFailed",
        events |-> <<<<"vmaCreateBuffer", NULL>>>>]
  ELSE [state |-> [state EXCEPT !.buffer = created, !.sizeBytes = bytes],
        mem |-> m @@ (created :> fresh), err |-> "ok",
        events |-> <<<<"vmaCreateBuffer", created>>>>]

alloc_or_resize(state, m, bytes, created, fresh) ==
  IF ZeroSizeRequest(bytes) \/ SameSizeAllocated(state, bytes)
  THEN [state |-> state, mem |-> m, err |-> "ok", events |-> <<>>]
  ELSE
    LET had == state.buffer # NULL
        m1 == IF had THEN Remove(m, state.buffer) ELSE m
        s1 == [state EXCEPT !.buffer = NULL]
        e1 == IF had THEN <<<<"vmaDestroyBuffer", state.buffer>>>> ELSE <<>>
    IN IF created = NULL
       THEN [state |-> s1, mem |-> m1, err |-> "AllocationFailed",
             events |-> e1 \o <<<<"vmaCreateBuffer", NULL>>>>]
       ELSE [state |-> [s1 EXCEPT !.buffer = created, !.sizeBytes = bytes],
             mem |-> m1 @@ (created :> fresh), err |-> "ok",
             events |-> e1 \o <<<<"vmaCreateBuffer", created>>>>]

ensure_buffer_state_Overwrites(bufs, name, access) ==
  IF name = ""
  THEN [buffers |-> bufs, err |-> "ConfigurationError"]
  ELSE IF name \notin DOMAIN bufs
  THEN [buffers |-> bufs @@ (name :> BufferState(access)), err |-> "ok"]
  ELSE [buffers |-> [bufs EXCEPT ![name].access = access], err |-> "ok"]

ensure_buffer_state(bufs, name, access) ==
  IF name = ""
  THEN [buffers |-> bufs, err |-> "ConfigurationError"]
  ELSE IF name \notin DOMAIN bufs
  THEN [buffers |-> bufs @@ (name :> BufferState(access)), err |-> "ok"]
  ELSE IF bufs[name].access # access
  THEN [buffers |-> bufs, err |-> "AccessMismatch"]
  ELSE [buffers |-> bufs, err |-> "ok"]

Result(op, name, bytes, access, flag, err, events) ==
  [op |-> op, name |-> name, bytes |-> bytes, access |-> access, flag |-> flag,
   data |-> <<>>, err |-> err, pre |-> get_state(name),
   preData |-> DataOf(mem, get_state(name).buffer), events |-> events]

Allocatable(name, created) ==
  created = NULL \/ created \notin (DOMAIN mem) \ {get_state(name).buffer}

allocateBytes(name, access, bytes, created, fresh) ==
  LET e == ensure_buffer_state(buffers, name, access) IN
  IF ~Ok(e)
  THEN /\ buffers' = e.buffers
       /\ last' = Result("allocateBytes", name, bytes, access, FALSE, e.err, <<>>)
       /\ UNCHANGED <<mem, kernels, objects, meta, ctx, inflight>>
  ELSE
    LET r == alloc_or_resize(e.buffers[name], mem, bytes, created, fresh) IN
    /\ Allocatable(name, created)
    /\ buffers' = [e.buffers EXCEPT ![name] = r.state]
    /\ mem' = r.mem
    /\ last' = Result("allocateBytes", name, bytes, access, FALSE, r.err, r.events)
    /\ UNCHANGED <<kernels, objects, meta, ctx, inflight>>

FillCommands_FirstByteOnly(state) ==
  <<<<"vkCmdFillBuffer", state.buffer, 1>>,
    <<"vkCmdPipelineBarrier/TransferToCompute", {state.buffer}>>>>

FillCommands(state) ==
  <<<<"vkCmdFillBuffer", state.buffer, state.sizeBytes>>,
    <<"vkCmdPipelineBarrier/TransferToCompute", {state.buffer}>>>>

zeroFillOf(state, m, objs, fl, failAt, executed) ==
  IF state.buffer = NULL
  THEN [mem |-> m, objects |-> objs, inflight |-> fl, err |-> "Unallocated", events |-> <<>>]
  ELSE submit_one_time(FillCommands(state), m, objs, fl, failAt, executed)

zeroFill(name, failAt, executed) ==
  IF name \notin DOMAIN buffers
  THEN /\ last' = Result("zeroFill", name, 0, "", FALSE, "UnknownBuffer", <<>>)
       /\ UNCHANGED <<buffers, mem, kernels, objects, meta, ctx, inflight>>
  ELSE
    LET r == zeroFillOf(buffers[name], mem, objects, inflight, failAt, executed) IN
    /\ LeakBound(r.objects, kernels)
    /\ mem' = r.mem
    /\ objects' = r.objects
    /\ inflight' = r.inflight
    /\ last' = Result("zeroFill", name, 0, "", FALSE, r.err, r.events)
    /\ UNCHANGED <<buffers, kernels, meta, ctx>>

resizeBytes(name, newSizeBytes, zeroInit, created, fresh, failAt, executed) ==
  IF name \notin DOMAIN buffers
  THEN /\ last' = Result("resizeBytes", name, newSizeBytes, "", zeroInit, "UnknownBuffer", <<>>)
       /\ UNCHANGED <<buffers, mem, kernels, objects, meta, ctx, inflight>>
  ELSE
    LET r == alloc_or_resize(buffers[name], mem, newSizeBytes, created, fresh)
        z == IF Ok(r) /\ zeroInit
             THEN zeroFillOf(r.state, r.mem, objects, inflight, failAt, executed)
             ELSE [mem |-> r.mem, objects |-> objects, inflight |-> inflight,
                   err |-> r.err, events |-> <<>>]
    IN
    /\ Allocatable(name, created)
    /\ LeakBound(z.objects, kernels)
    /\ buffers' = [buffers EXCEPT ![name] = r.state]
    /\ mem' = z.mem
    /\ objects' = z.objects
    /\ inflight' = z.inflight
    /\ last' = Result("resizeBytes", name, newSizeBytes, "", zeroInit, z.err, r.events \o z.events)
    /\ UNCHANGED <<kernels, meta, ctx>>

setBytes_RejectsFullLength(name, data) ==
  LET bytes == Len(data)
      state == get_state(name)
      err == IF name \notin DOMAIN buffers THEN "UnknownBuffer"
             ELSE IF state.buffer = NULL THEN "Unallocated"
             ELSE IF bytes >= state.sizeBytes THEN "SizeExceeded"
             ELSE "ok"
  IN
  /\ mem' = IF err = "ok"
            THEN [mem EXCEPT ![state.buffer] =
                    [i \in 1..Len(mem[state.buffer]) |->
                       IF i <= bytes THEN data[i] ELSE mem[state.buffer][i]]]
            ELSE mem
  /\ last' = [Result("setBytes", name, bytes, "", FALSE, err, <<>>) EXCEPT !.data = data]
  /\ UNCHANGED <<buffers, kernels, objects, meta, ctx, inflight>>

setBytes(name, data) ==
  LET bytes == Len(data)
      state == get_state(name)
      err == IF name \notin DOMAIN buffers THEN "UnknownBuffer"
             ELSE IF state.buffer = NULL THEN "Unallocated"
             ELSE IF bytes > state.sizeBytes THEN "SizeExceeded"
             ELSE "ok"
  IN
  /\ mem' = IF err = "ok"
            THEN [mem EXCEPT ![state.buffer] =
                    [i \in 1..Len(mem[state.buffer]) |->
                       IF i <= bytes THEN data[i] ELSE mem[state.buffer][i]]]
            ELSE mem
  /\ last' = [Result("setBytes", name, bytes, "", FALSE, err, <<>>) EXCEPT !.data = data]
  /\ UNCHANGED <<buffers, kernels, objects, meta, ctx, inflight>>

getBytes_ReadsFromEnd(name, bytes) ==
  LET state == get_state(name)
      err == IF name \notin DOMAIN buffers THEN "UnknownBuffer"
             ELSE IF state.buffer = NULL THEN "Unallocated"
             ELSE IF bytes > state.sizeBytes THEN "SizeExceeded"
             ELSE "ok"
      out == IF err = "ok"
             THEN [i \in 1..bytes |-> mem[state.buffer][state.sizeBytes - bytes + i]]
             ELSE <<>>
  IN
  /\ last' = [Result("getBytes", name, bytes, "", FALSE, err, <<>>) EXCEPT !.data = out]
  /\ UNCHANGED <<buffers, mem, kernels, objects, meta, ctx, inflight>>

getBytes(name, bytes) ==
  LET state == get_state(name)
      err == IF name \notin DOMAIN buffers THEN "UnknownBuffer"
             ELSE IF state.buffer = NULL THEN "Unallocated"
             ELSE IF bytes > state.sizeBytes THEN "SizeExceeded"
             ELSE "ok"
      out == IF err = "ok" THEN [i \in 1..bytes |-> mem[state.buffer][i]] ELSE <<>>
  IN
  /\ last' = [Result("getBytes", name, bytes, "", FALSE, err, <<>>) EXCEPT !.data = out]
  /\ UNCHANGED <<buffers, mem, kernels, objects, meta, ctx, inflight>>

(* The device finishes the oldest command sequence whose completion no   *)
(* call has observed.                                                     *)
DeviceCompletes ==
  /\ inflight # <<>>
  /\ mem' = Execute(mem, Head(inflight))
  /\ inflight' = Tail(inflight)
  /\ last' = Result("DeviceCompletes", "", 0, "", FALSE, "ok", <<>>)
  /\ UNCHANGED <<buffers, kernels, objects, meta, ctx>>

(* ---------------------------- kernel metadata -------------------------- *)
Binding(name, access, set, binding) ==
  [name |-> name, access |-> access, set |-> set, binding |-> binding]

KernelNames == {"copy", "sparse", "dup", "ghost"}

Registry ==
  [k \in {"copy", "sparse", "dup"} |->
     IF k = "copy"
     THEN <<Binding("A", "ReadOnly", 0, 0), Binding("B", "WriteOnly", 0, 1)>>
     ELSE IF k = "sparse"
     THEN <<Binding("A", "ReadOnly", 0, 0), Binding("B", "WriteOnly", 2, 0)>>
     ELSE <<Binding("A", "ReadOnly", 0, 0), Binding("B", "WriteOnly", 0, 0)>>]

get_module(kernelName) ==
  IF kernelName \in DOMAIN meta
  THEN [found |-> TRUE, buffers |-> meta[kernelName]]
  ELSE [found |-> FALSE, buffers |-> <<>>]

RECURSIVE MaxSetFrom(_, _, _)
MaxSetFrom(bs, i, acc) ==
  IF i > Len(bs) THEN acc
  ELSE MaxSetFrom(bs, i + 1, IF bs[i].set > acc THEN bs[i].set ELSE acc)

setCountOf(bs) == IF bs = <<>> THEN 0 ELSE MaxSetFrom(bs, 1, 0) + 1

HasDuplicateBinding_IgnoresSet(bs) ==
  \E i, j \in 1..Len(bs) : i < j /\ bs[i].binding = bs[j].binding

HasDuplicateBinding(bs) ==
  \E i, j \in 1..Len(bs) :
    i < j /\ bs[i].set = bs[j].set /\ bs[i].binding = bs[j].binding

(* ---------------------------- Instance.cpp ----------------------------- *)
SpvSizes == {-1, 0, 6, 8}

read_spirv_words(size) ==
  IF size < 0 THEN "InvalidBinary"
  ELSE IF size <= 0 THEN "InvalidBinary"
  ELSE IF size % 4 # 0 THEN "InvalidBinary"
  ELSE "ok"

(* layoutBindings is what the device holds for each set layout: the       *)
(* binding indices the layout was created with.                           *)
KernelState(setCount) ==
  [shaderModule |-> NULL, pipelineLayout |-> NULL, pipeline |-> NULL,
   setLayouts |-> [i \in 1..setCount |-> NULL],
   layoutBindings |-> [i \in 1..setCount |-> <<>>]]

RECURSIVE Sorted(_)
Sorted(S) ==
  IF S = {} THEN <<>>
  ELSE LET lo == CHOOSE x \in S : \A y \in S : x <= y
       IN <<lo>> \o Sorted(S \ {lo})

perSet_DropsEmptySets(bs, setCount) ==
  LET used == Sorted({ bs[i].set : i \in 1..Len(bs) })
  IN [k \in 1..Len(used) |->
        Sorted({ bs[i].binding : i \in { j \in 1..Len(bs) : bs[j].set = used[k] } })]

perSet(bs, setCount) ==
  [set \in 1..setCount |->
     Sorted({ bs[i].binding : i \in { j \in 1..Len(bs) : bs[j].set = set - 1 } })]

RECURSIVE CreateSetLayouts(_, _, _, _)
CreateSetLayouts(r, layouts, set, failAt) ==
  IF set >= Len(layouts) THEN r
  ELSE IF failAt = set + 1
  THEN [r EXCEPT !.err = "vkCreateDescriptorSetLayout",
                 !.events = @ \o <<<<"vkCreateDescriptorSetLayout", NULL>>>>]
  ELSE LET id == Valid IN
       CreateSetLayouts(
         [r EXCEPT !.objects = CreateObj(@, "DescriptorSetLayout"),
                   !.kernel.setLayouts[set + 1] = id,
                   !.kernel.layoutBindings[set + 1] = layouts[set + 1],
                   !.events = @ \o <<<<"vkCreateDescriptorSetLayout", id, layouts[set + 1]>>>>],
         layouts, set + 1, failAt)

Emplace_EvenOnFailure(kns, kernelName, kernel, err) == kns @@ (kernelName :> kernel)

Emplace(kns, kernelName, kernel, err) ==
  IF err = "ok" THEN kns @@ (kernelName :> kernel) ELSE kns

BuildKernel(objs, bs, setCount, spvSize, failAt) ==
  LET r0 == [objects |-> objs, kernel |-> KernelState(setCount),
             err |-> "ok", events |-> <<>>]
      r1 == CreateSetLayouts(r0, perSet(bs, setCount), 0, failAt)
  IN
  IF ~Ok(r1) THEN r1
  ELSE IF failAt = setCount + 1
  THEN [r1 EXCEPT !.err = "vkCreatePipelineLayout",
                  !.events = @ \o <<<<"vkCreatePipelineLayout", NULL>>>>]
  ELSE
    LET pl == Valid
        r2 == [r1 EXCEPT !.objects = CreateObj(@, "PipelineLayout"),
                         !.kernel.pipelineLayout = pl,
                         !.events = @ \o <<<<"vkCreatePipelineLayout", pl>>>>]
    IN
    IF read_spirv_words(spvSize) # "ok"
    THEN [r2 EXCEPT !.err = read_spirv_words(spvSize),
                    !.events = @ \o <<<<"read_spirv_words", NULL>>>>]
    ELSE IF failAt = setCount + 2
    THEN [r2 EXCEPT !.err = "vkCreateShaderModule",
                    !.events = @ \o <<<<"read_spirv_words", spvSize>>,
                                       <<"vkCreateShaderModule", NULL>>>>]
    ELSE
      LET sm == Valid
          r3 == [r2 EXCEPT !.objects = CreateObj(@, "ShaderModule"),
                           !.kernel.shaderModule = sm,
                           !.events = @ \o <<<<"read_spirv_words", spvSize>>,
                                              <<"vkCreateShaderModule", sm>>>>]
      IN
      IF failAt = setCount + 3
      THEN [r3 EXCEPT !.err = "PipelineBuildFailed",
                      !.events = @ \o <<<<"vkCreateComputePipelines", NULL>>>>]
      ELSE
        LET p == Valid IN
        [r3 EXCEPT !.objects = CreateObj(@, "Pipeline"),
                   !.kernel.pipeline = p,
                   !.events = @ \o <<<<"vkCreateComputePipelines", p>>>>]

AlreadyExists_NeverDetected(kns, kernelName) == FALSE

AlreadyExists(kns, kernelName) == kernelName \in DOMAIN kns

addKernel(kernelName, spvSize, failAt) ==
  LET module == get_module(kernelName)
      setCount == setCountOf(module.buffers)
  IN
  IF AlreadyExists(kernels, kernelName)
  THEN /\ last' = Result("addKernel", kernelName, 0, "", FALSE, "KernelAlreadyExists", <<>>)
       /\ UNCHANGED <<buffers, mem, kernels, objects, meta, ctx, inflight>>
  ELSE IF ~module.found
  THEN /\ last' = Result("addKernel", kernelName, 0, "", FALSE, "MetadataNotFound", <<>>)
       /\ UNCHANGED <<buffers, mem, kernels, objects, meta, ctx, inflight>>
  ELSE IF HasDuplicateBinding(module.buffers)
  THEN /\ last' = Result("addKernel", kernelName, 0, "", FALSE, "DuplicateBinding", <<>>)
       /\ UNCHANGED <<buffers, mem, kernels, objects, meta, ctx, inflight>>
  ELSE
    LET r == BuildKernel(objects, module.buffers, setCount, spvSize, failAt) IN
    /\ failAt <= setCount + 3
    /\ LeakBound(r.objects, Emplace(kernels, kernelName, r.kernel, r.err))
    /\ kernels' = Emplace(kernels, kernelName, r.kernel, r.err)
    /\ objects' = r.objects
    /\ last' = Result("addKernel", kernelName, 0, "", FALSE, r.err, r.events)
    /\ UNCHANGED <<buffers, mem, meta, ctx, inflight>>

RECURSIVE ResolveBuffers(_, _, _)
ResolveBuffers(bufs, bs, i) ==
  IF i > Len(bs) THEN "ok"
  ELSE IF bs[i].name \notin DOMAIN bufs THEN "MissingBuffer"
  ELSE IF bufs[bs[i].name].buffer = NULL THEN "Unallocated"
  ELSE ResolveBuffers(bufs, bs, i + 1)

Resolve_UnallocatedFirst(bufs, bs) ==
  IF \E i \in 1..Len(bs) : bs[i].name \in DOMAIN bufs /\ bufs[bs[i].name].buffer = NULL
  THEN "Unallocated"
  ELSE IF \E i \in 1..Len(bs) : bs[i].name \notin DOMAIN bufs
  THEN "MissingBuffer"
  ELSE "ok"

Resolve_MissingFirst(bufs, bs) ==
  IF \E i \in 1..Len(bs) : bs[i].name \notin DOMAIN bufs
  THEN "MissingBuffer"
  ELSE IF \E i \in 1..Len(bs) : bufs[bs[i].name].buffer = NULL
  THEN "Unallocated"
  ELSE "ok"

Resolve(bufs, bs) == ResolveBuffers(bufs, bs, 1)

BoundHandles_WrittenOnly(bufs, bs) ==
  { bufs[bs[i].name].buffer : i \in { j \in 1..Len(bs) : bs[j].access # "ReadOnly" } }

BoundHandles(bufs, bs) == { bufs[bs[i].name].buffer : i \in 1..Len(bs) }

WrittenHandles(bufs, bs) ==
  { bufs[bs[i].name].buffer : i \in { j \in 1..Len(bs) : bs[j].access # "ReadOnly" } }

RecordDispatch_BarrierAfterDispatch(bufs, bs, kernelState, setCount, v) ==
  <<<<"vkCmdBindPipeline", kernelState.pipeline>>>>
  \o (IF setCount > 0
      THEN <<<<"vkCmdBindDescriptorSets", kernelState.pipelineLayout>>>>
      ELSE <<>>)
  \o <<<<"vkCmdDispatch", WrittenHandles(bufs, bs), v>>>>
  \o (IF bs # <<>>
      THEN <<<<"vkCmdPipelineBarrier/HostToCompute", BoundHandles(bufs, bs)>>,
             <<"vkCmdPipelineBarrier/ComputeToHost", BoundHandles(bufs, bs)>>>>
      ELSE <<>>)

RecordDispatch(bufs, bs, kernelState, setCount, v) ==
  (IF bs # <<>>
   THEN <<<<"vkCmdPipelineBarrier/HostToCompute", BoundHandles(bufs, bs)>>>>
   ELSE <<>>)
  \o <<<<"vkCmdBindPipeline", kernelState.pipeline>>>>
  \o (IF setCount > 0
      THEN <<<<"vkCmdBindDescriptorSets", kernelState.pipelineLayout>>>>
      ELSE <<>>)
  \o <<<<"vkCmdDispatch", WrittenHandles(bufs, bs), v>>>>
  \o (IF bs # <<>>
      THEN <<<<"vkCmdPipelineBarrier/ComputeToHost", BoundHandles(bufs, bs)>>>>
      ELSE <<>>)

Writes(bs) == [i \in 1..Len(bs) |-> <<bs[i].set, bs[i].binding>>]

LayoutMismatch_NeverDetected(kernelState, setCount) == FALSE

LayoutMismatch(kernelState, setCount) == Len(kernelState.setLayouts) # setCount

Dispatch(bufs, m, objs, fl, kernelState, bs, failAt, executed, v) ==
  LET setCount == setCountOf(bs) IN
  IF LayoutMismatch(kernelState, setCount)
  THEN [mem |-> m, objects |-> objs, inflight |-> fl, err |-> "LayoutMismatch",
        events |-> <<>>]
  ELSE IF failAt = "vkCreateDescriptorPool"
  THEN [mem |-> m, objects |-> objs, inflight |-> fl, err |-> "vkCreateDescriptorPool",
        events |-> <<<<"vkCreateDescriptorPool", NULL>>>>]
  ELSE
    LET descPool == Valid
        o1 == CreateObj(objs, "DescriptorPool")
        e1 == <<<<"vkCreateDescriptorPool", descPool>>>>
    IN
    IF setCount > 0 /\ failAt = "vkAllocateDescriptorSets"
    THEN [mem |-> m, objects |-> o1, inflight |-> fl, err |-> "vkAllocateDescriptorSets",
          events |-> e1 \o <<<<"vkAllocateDescriptorSets", NULL>>>>]
    ELSE
      LET e2 == IF setCount > 0
                THEN e1 \o <<<<"vkAllocateDescriptorSets", descPool>>>>
                ELSE e1
          resolved == Resolve(bufs, bs)
      IN
      IF resolved # "ok"
      THEN [mem |-> m, objects |-> objs, inflight |-> fl, err |-> resolved,
            events |-> e2 \o <<<<"vkDestroyDescriptorPool", descPool>>>>]
      ELSE
        LET e3 == IF bs # <<>>
                  THEN e2 \o <<<<"vkUpdateDescriptorSets", BoundHandles(bufs, bs), Writes(bs)>>>>
                  ELSE e2
            s == submit_one_time(RecordDispatch(bufs, bs, kernelState, setCount, v),
                                 m, o1, fl, failAt, executed)
        IN
        IF ~Ok(s)
        THEN [mem |-> s.mem, objects |-> s.objects, inflight |-> s.inflight, err |-> s.err,
              events |-> e3 \o s.events]
        ELSE [mem |-> s.mem, objects |-> DestroyObj(s.objects, "DescriptorPool"),
              inflight |-> s.inflight, err |-> "ok",
              events |-> e3 \o s.events \o <<<<"vkDestroyDescriptorPool", descPool>>>>]

runSingleKernel_PoolBeforeLookup(kernelName, failAt, executed, v) ==
  IF kernelName \notin DOMAIN kernels
  THEN /\ LeakBound(CreateObj(objects, "DescriptorPool"), kernels)
       /\ objects' = CreateObj(objects, "DescriptorPool")
       /\ last' = Result("runSingleKernel", kernelName, 0, "", FALSE, "UnknownKernel",
                         <<<<"vkCreateDescriptorPool", Valid>>>>)
       /\ UNCHANGED <<buffers, mem, kernels, meta, ctx, inflight>>
  ELSE
    LET r == Dispatch(buffers, mem, objects, inflight, kernels[kernelName],
                      get_module(kernelName).buffers, failAt, executed, v)
    IN
    /\ LeakBound(r.objects, kernels)
    /\ mem' = r.mem
    /\ objects' = r.objects
    /\ inflight' = r.inflight
    /\ last' = Result("runSingleKernel", kernelName, 0, "", FALSE, r.err, r.events)
    /\ UNCHANGED <<buffers, kernels, meta, ctx>>

runSingleKernel_DropsKernelOnFailure(kernelName, failAt, executed, v) ==
  IF kernelName \notin DOMAIN kernels
  THEN /\ last' = Result("runSingleKernel", kernelName, 0, "", FALSE, "UnknownKernel", <<>>)
       /\ UNCHANGED <<buffers, mem, kernels, objects, meta, ctx, inflight>>
  ELSE
    LET r == Dispatch(buffers, mem, objects, inflight, kernels[kernelName],
                      get_module(kernelName).buffers, failAt, executed, v)
    IN
    /\ LeakBound(r.objects, kernels)
    /\ mem' = r.mem
    /\ objects' = r.objects
    /\ inflight' = r.inflight
    /\ kernels' = IF Ok(r) THEN kernels ELSE Remove(kernels, kernelName)
    /\ last' = Result("runSingleKernel", kernelName, 0, "", FALSE, r.err, r.events)
    /\ UNCHANGED <<buffers, meta, ctx>>

runSingleKernel(kernelName, failAt, executed, v) ==
  IF kernelName \notin DOMAIN kernels
  THEN /\ last' = Result("runSingleKernel", kernelName, 0, "", FALSE, "UnknownKernel", <<>>)
       /\ UNCHANGED <<buffers, mem, kernels, objects, meta, ctx, inflight>>
  ELSE
    LET r == Dispatch(buffers, mem, objects, inflight, kernels[kernelName],
                      get_module(kernelName).buffers, failAt, executed, v)
    IN
    /\ LeakBound(r.objects, kernels)
    /\ mem' = r.mem
    /\ objects' = r.objects
    /\ inflight' = r.inflight
    /\ last' = Result("runSingleKernel", kernelName, 0, "", FALSE, r.err, r.events)
    /\ UNCHANGED <<buffers, kernels, meta, ctx>>

(* ---------------------------- ~InstanceImpl ---------------------------- *)
(* The registries are unordered maps: the order among kernels and among    *)
(* buffers is whatever the container yields.                               *)
RECURSIVE SeqOf(_)
SeqOf(S) ==
  IF S = {} THEN <<>>
  ELSE LET x == CHOOSE y \in S : TRUE IN <<x>> \o SeqOf(S \ {x})

DestroyKernel(kernel) ==
  LET layouts == SelectSeq(kernel.setLayouts, LAMBDA h : h # NULL) IN
  [i \in 1..Len(layouts) |-> <<"vkDestroyDescriptorSetLayout", layouts[i]>>]
  \o (IF kernel.pipeline # NULL THEN <<<<"vkDestroyPipeline", kernel.pipeline>>>> ELSE <<>>)
  \o (IF kernel.pipelineLayout # NULL
      THEN <<<<"vkDestroyPipelineLayout", kernel.pipelineLayout>>>> ELSE <<>>)
  \o (IF kernel.shaderModule # NULL
      THEN <<<<"vkDestroyShaderModule", kernel.shaderModule>>>> ELSE <<>>)

RECURSIVE DestroyKernels(_, _)
DestroyKernels(kns, names) ==
  IF names = <<>> THEN <<>>
  ELSE DestroyKernel(kns[Head(names)]) \o DestroyKernels(kns, Tail(names))

RECURSIVE DestroyBuffers(_, _)
DestroyBuffers(bufs, names) ==
  IF names = <<>> THEN <<>>
  ELSE (IF bufs[Head(names)].buffer # NULL
        THEN <<<<"vmaDestroyBuffer", bufs[Head(names)].buffer>>>>
        ELSE <<>>)
       \o DestroyBuffers(bufs, Tail(names))

DestroyInstanceImpl(kns, bufs) ==
  DestroyKernels(kns, SeqOf(DOMAIN kns))
  \o DestroyBuffers(bufs, SeqOf(DOMAIN bufs))
  \o <<<<"vkDestroyCommandPool", Valid>>, <<"vmaDestroyAllocator", Valid>>,
       <<"vkDestroyDevice", Valid>>, <<"vkDestroyInstance", Valid>>>>

DestroyedBy(kind) ==
  IF kind = "DescriptorSetLayout" THEN "vkDestroyDescriptorSetLayout"
  ELSE IF kind = "PipelineLayout" THEN "vkDestroyPipelineLayout"
  ELSE IF kind = "ShaderModule" THEN "vkDestroyShaderModule"
  ELSE IF kind = "Pipeline" THEN "vkDestroyPipeline"
  ELSE "none"

CountTag(e, tag) == Len(SelectSeq(e, LAMBDA x : x[1] = tag))

(* Destroying the command pool frees the command buffers allocated from it *)
AfterTeardown(objs, e) ==
  [k \in Kinds |->
     IF k = "CommandBuffer" THEN 0 ELSE objs[k] - CountTag(e, DestroyedBy(k))]

Teardown ==
  LET e == DestroyInstanceImpl(kernels, buffers) IN
  /\ kernels' = <<>>
  /\ buffers' = <<>>
  /\ mem' = <<>>
  /\ objects' = AfterTeardown(objects, e)
  /\ last' = Result("~InstanceImpl", "", 0, "", FALSE, "ok", e)
  /\ UNCHANGED <<meta, inflight>>

(* Instance, BufferBuilder and Buffer each hold a shared_ptr to the        *)
(* context; ctx.useCount is the number of such handles.                    *)
Live == ctx.useCount > 0

CopyHandle ==
  /\ Live
  /\ ctx.useCount < MaxRefs
  /\ ctx' = [ctx EXCEPT !.useCount = @ + 1]
  /\ last' = Result("CopyHandle", "", 0, "", FALSE, "ok", <<>>)
  /\ UNCHANGED <<buffers, mem, kernels, objects, meta, inflight>>

DropHandle_DestroysOnEveryDrop ==
  /\ Live
  /\ ctx' = [useCount |-> ctx.useCount - 1, destroyed |-> TRUE]
  /\ Teardown

DropHandle ==
  /\ Live
  /\ IF ctx.useCount = 1
     THEN /\ ctx' = [useCount |-> 0, destroyed |-> TRUE]
          /\ Teardown
     ELSE /\ ctx' = [ctx EXCEPT !.useCount = @ - 1]
          /\ last' = Result("DropHandle", "", 0, "", FALSE, "ok", <<>>)
          /\ UNCHANGED <<buffers, mem, kernels, objects, meta, inflight>>

(* ---------------------------- specification ---------------------------- *)
Init ==
  /\ buffers = <<>>
  /\ mem = <<>>
  /\ kernels = <<>>
  /\ objects = [k \in Kinds |-> 0]
  /\ meta = Registry
  /\ inflight = <<>>
  /\ ctx = [useCount |-> 1, destroyed |-> FALSE]
  /\ last = [op |-> "makeInstance", name |-> "", bytes |-> 0, err |-> "ok",
             access |-> "", flag |-> FALSE, data |-> <<>>,
             pre |-> NoEntry, preData |-> <<>>, events |-> <<>>]

Handles == 1..MaxHandles

Created == {NULL} \cup Handles

FreeHandle(name) ==
  { h \in Handles :
      /\ Allocatable(name, h)
      /\ \A g \in Handles : g < h => ~Allocatable(name, g) }

FreshData(created, bytes) == IF created = NULL THEN {Zeros(bytes)} ELSE Data(bytes)

SizesOf(name) == IF name = "A" THEN Sizes ELSE {0}

AllocInputs(name) ==
  { x \in SizesOf(name) \X Created : x[2] # NULL => x[1] # 0 }

SubmitInputs ==
  { x \in SubmitFailures \X BOOLEAN :
      x[2] => x[1] \in {"none", "vkWaitForFences"} }

FillInputs == { x \in SubmitInputs : x[1] \in {"none", "vkAllocateCommandBuffers"} /\ ~x[2] }

ResizeInputs == {<<FALSE, "none", FALSE>>} \cup { <<TRUE, x[1], x[2]>> : x \in FillInputs }

DoAllocateBytes ==
  \E name \in DeclareNames, access \in Accesses :
    \E x \in AllocInputs(name) :
      \E fresh \in FreshData(x[2], x[1]) :
        allocateBytes(name, access, x[1], x[2], fresh)

DoResizeBytes ==
  \E name \in BufferNames, z \in ResizeInputs :
    \E x \in AllocInputs(name) :
      \E fresh \in FreshData(x[2], x[1]) :
        resizeBytes(name, x[1], z[1], x[2], fresh, z[2], z[3])

DoZeroFill ==
  \E name \in BufferNames, x \in FillInputs :
    zeroFill(name, x[1], x[2])

WriteInputs(name, n) ==
  { d \in Data(n) :
      d = Zeros(n) \/ (get_state(name).buffer # NULL /\ n <= get_state(name).sizeBytes) }

DoSetBytes ==
  \E name \in BufferNames :
    \E n \in SizesOf(name) :
      \E data \in WriteInputs(name, n) : setBytes(name, data)

DoGetBytes ==
  \E name \in BufferNames :
    \E n \in SizesOf(name) : getBytes(name, n)

MetaAccess(name) == IF name = "A" THEN "ReadOnly" ELSE "WriteOnly"

DeclareBuffer ==
  \E name \in BufferNames, bytes \in {0, 1} :
    \E created \in {h \in Handles \ DOMAIN mem : bytes # 0} \cup
                   {h \in {NULL} : bytes = 0} :
      allocateBytes(name, MetaAccess(name), bytes, created, Zeros(bytes))

AddInputs ==
  { x \in SpvSizes \X (0..6) : x[1] = 8 \/ x[2] = 0 }

DoAddKernel ==
  \E kernelName \in KernelNames, x \in AddInputs :
    addKernel(kernelName, x[1], x[2])

RunFailures == {"vkCreateDescriptorPool", "vkAllocateDescriptorSets"} \cup SubmitFailures

RunInputs ==
  { x \in RunFailures \X BOOLEAN \X Byte :
      /\ x[2] <=> x[1] \in {"none", "vkWaitForFences"} /\ (x[1] = "none" \/ x[2])
      /\ ~x[2] => x[3] = 0 }

DoRunSingleKernel ==
  \E kernelName \in KernelNames, x \in RunInputs :
    runSingleKernel(kernelName, x[1], x[2], x[3])

(* The metadata source is external to the context: the binding list it   *)
(* reports for a kernel name may differ from one call to the next.        *)
DriftLists ==
  { <<>>,
    <<Binding("A", "ReadOnly", 0, 0), Binding("B", "WriteOnly", 0, 1)>>,
    <<Binding("B", "WriteOnly", 2, 1), Binding("A", "ReadOnly", 0, 0),
      Binding("A", "ReadOnly", 2, 0)>>,
    <<Binding("A", "ReadOnly", 1, 0)>>,
    <<Binding("B", "WriteOnly", 0, 0), Binding("A", "ReadOnly", 0, 1)>>,
    <<Binding("A", "ReadOnly", 0, 0), Binding("B", "WriteOnly", 1, 1)>>,
    <<Binding("A", "ReadOnly", 0, 0), Binding("B", "WriteOnly", 0, 0)>> }

MetadataDrift ==
  \E bs \in DriftLists :
    /\ meta' = [meta EXCEPT !["copy"] = bs]
    /\ last' = Result("MetadataDrift", "copy", 0, "", FALSE, "ok", <<>>)
    /\ UNCHANGED <<buffers, mem, kernels, objects, inflight, ctx>>

AddDrifted == \E x \in {<<8, 0>>, <<8, 1>>, <<6, 0>>} : addKernel("copy", x[1], x[2])

RunDrifted ==
  \E x \in {<<"none", TRUE>>, <<"vkCreateDescriptorPool", FALSE>>}, v \in Byte :
    runSingleKernel("copy", x[1], x[2], v)

NextDrift == MetadataDrift \/ DeclareBuffer \/ AddDrifted \/ RunDrifted

SpecDrift == Init /\ [][NextDrift]_vars

(* Dispatches, zero-fills and host accesses of one kernel's buffers, with *)
(* the fence wait succeeding or failing.                                  *)
WaitOutcomes == {<<"none", TRUE>>, <<"vkWaitForFences", TRUE>>, <<"vkWaitForFences", FALSE>>}

AddSync == addKernel("copy", 8, 0)

RunSync == \E x \in WaitOutcomes, v \in Byte : runSingleKernel("copy", x[1], x[2], v)

FillSync == \E name \in BufferNames, x \in WaitOutcomes : zeroFill(name, x[1], x[2])

ReadSync == \E name \in BufferNames : getBytes(name, 1)

ResizeSync ==
  \E name \in BufferNames, zeroInit \in BOOLEAN :
    \E created \in FreeHandle(name) :
      resizeBytes(name, MaxSize, zeroInit, created, Zeros(MaxSize), "none", FALSE)

NextSync ==
  \/ DeclareBuffer
  \/ AddSync
  \/ RunSync
  \/ FillSync
  \/ ReadSync
  \/ ResizeSync
  \/ DeviceCompletes

SpecSync == Init /\ [][NextSync]_vars

(* Operations are issued through a handle the caller still holds.         *)
LiveDeclare == Live /\ DeclareBuffer

LiveAddKernel ==
  /\ Live
  /\ \E kernelName \in {"copy", "sparse"}, spvSize \in {8, 6} : addKernel(kernelName, spvSize, 0)

LiveRun == Live /\ runSingleKernel("copy", "none", TRUE, 0)

NextLifetime ==
  \/ CopyHandle
  \/ DropHandle
  \/ LiveDeclare
  \/ LiveAddKernel
  \/ LiveRun

SpecLifetime == Init /\ [][NextLifetime]_vars

NextBuffer == DoAllocateBytes \/ DoResizeBytes \/ DoZeroFill \/ DoSetBytes \/ DoGetBytes

SpecBuffer == Init /\ [][NextBuffer]_vars

NextKernel == DeclareBuffer \/ DoAddKernel \/ DoRunSingleKernel \/ DeviceCompletes

SpecKernel == Init /\ [][NextKernel]_vars

(* Every public operation together, on inputs that keep the contents zero *)
AllocatorOutcomes(name, bytes) ==
  IF bytes = 0 THEN {NULL} ELSE {NULL} \cup FreeHandle(name)

Declare ==
  \E name \in BufferNames, access \in Accesses, bytes \in Sizes :
    \E created \in AllocatorOutcomes(name, bytes) :
      allocateBytes(name, access, bytes, created, Zeros(bytes))

Resize ==
  \E name \in BufferNames, bytes \in Sizes :
    \E created \in AllocatorOutcomes(name, bytes) :
      resizeBytes(name, bytes, FALSE, created, Zeros(bytes), "none", FALSE)

ZeroFill == \E name \in BufferNames : zeroFill(name, "none", FALSE)

Write == \E name \in BufferNames, n \in Sizes : setBytes(name, Zeros(n))

AddKernel ==
  \E kernelName \in {"copy", "ghost"}, failAt \in {0, 1} :
    addKernel(kernelName, 8, failAt)

RunKernel ==
  \E x \in {<<"none", TRUE>>, <<"vkCreateDescriptorPool", FALSE>>} :
    runSingleKernel("copy", x[1], x[2], 0)

Next ==
  \/ Declare
  \/ Resize
  \/ ZeroFill
  \/ Write
  \/ AddKernel
  \/ RunKernel

Spec == Init /\ [][Next]_vars

(* ============================== claims ================================= *)
BufferCall == last.op \in {"resizeBytes", "allocateBytes"}

EntryIntact ==
  /\ last.name \in DOMAIN buffers
  /\ buffers[last.name] = last.pre
  /\ last.pre.buffer # NULL => /\ last.pre.buffer \in DOMAIN mem
                               /\ mem[last.pre.buffer] = last.preData

(* C1: when the allocator rejects the request while an allocated buffer is *)
(* resized to a different non-zero size, the call fails with              *)
(* AllocationFailed and the registry entry (size, live handle, contents)  *)
(* is exactly as before the call.                                         *)
C1_FailedResizeKeepsEntry ==
  (BufferCall /\ last.err = "AllocationFailed" /\ last.pre.buffer # NULL)
    => EntryIntact

(* C8: a resize that replaces an allocated buffer's memory destroys the   *)
(* old memory only after the new allocation exists.                       *)
C8_DestroyAfterCreate ==
  (BufferCall /\ Has(last.events, "vmaDestroyBuffer"))
    => \E i \in 1..(Pos(last.events, "vmaDestroyBuffer") - 1) :
         /\ last.events[i][1] = "vmaCreateBuffer"
         /\ last.events[i][2] # NULL

(* C6: resizeBytes(n, zeroInit = false) with n the recorded size and      *)
(* memory present reallocates nothing: no device memory is created or     *)
(* destroyed, the handle is the same and the bytes written before are     *)
(* still there.                                                           *)
SameSizeResize ==
  /\ last.op = "resizeBytes"
  /\ ~last.flag
  /\ last.pre.buffer # NULL
  /\ last.bytes = last.pre.sizeBytes

C6_SameSizeResizeIsNoOp ==
  SameSizeResize =>
    /\ last.err = "ok"
    /\ last.events = <<>>
    /\ EntryIntact

C6_Witness ==
  /\ SameSizeResize
  /\ last.bytes = MaxSize
  /\ \A i \in 1..MaxSize : last.preData[i] = 1

(* C5: re-declaring, through the builder, a name already declared with the *)
(* same access, with size 0 or with the size it already has, succeeds and  *)
(* leaves access, size, handle and contents of the entry as they were; no  *)
(* device memory is created or destroyed.                                  *)
SameRedeclare ==
  /\ last.op = "allocateBytes"
  /\ last.pre.access = last.access
  /\ last.bytes \in {0, last.pre.sizeBytes}

C5_RedeclareIsIdempotent ==
  SameRedeclare =>
    /\ last.err = "ok"
    /\ last.events = <<>>
    /\ EntryIntact

(* C7 as stated: after resize to 0 and back to S > 0 the buffer is backed  *)
(* by a fresh allocation, not the one that held the contents.              *)
ZeroThenBack ==
  /\ last.op = "resizeBytes" /\ last.bytes = 0 /\ ~last.flag /\ last.err = "ok"
  /\ last.pre.buffer # NULL /\ last.pre.sizeBytes > 0
  /\ last'.op = "resizeBytes" /\ last'.name = last.name /\ ~last'.flag
  /\ last'.bytes = last.pre.sizeBytes /\ last'.err = "ok"

C7_ZeroRoundTripReallocates ==
  [][ZeroThenBack => Has(last'.events, "vmaCreateBuffer")]_vars

(* C7 amended: resize to 0 is a no-op, so after resize to 0 and back to S  *)
(* the entry still has size S, the same allocation and the same contents,  *)
(* and no device memory was created or destroyed.                          *)
C7_ZeroRoundTripKeepsBuffer ==
  [][ZeroThenBack =>
       /\ last'.events = <<>>
       /\ buffers'[last.name] = last.pre
       /\ last.pre.buffer \in DOMAIN mem'
       /\ mem'[last.pre.buffer] = last.preData]_vars

C7_Witness ==
  /\ last.op = "resizeBytes" /\ last.bytes = 0 /\ ~last.flag /\ last.err = "ok"
  /\ last.pre.sizeBytes = MaxSize
  /\ \A i \in 1..MaxSize : last.preData[i] = 1
  /\ buffers[last.name] = last.pre
  /\ mem[last.pre.buffer] = last.preData

(* C2: after any addKernel call the registry holds the name with a complete *)
(* kernel (max(set)+1 binding layouts, pipeline layout and pipeline, all    *)
(* non-null) or does not hold it; a failed addKernel inserts nothing.       *)
Complete(kernelName) ==
  LET k == kernels[kernelName] IN
  /\ Len(k.setLayouts) = setCountOf(get_module(kernelName).buffers)
  /\ \A i \in 1..Len(k.setLayouts) : k.setLayouts[i] # NULL
  /\ k.pipelineLayout # NULL
  /\ k.pipeline # NULL

C2_KernelCompleteOrAbsent ==
  /\ \A k \in DOMAIN kernels : Complete(k)
  /\ last.op = "addKernel" =>
       /\ last.err = "ok" => last.name \in DOMAIN kernels
       /\ last.err \notin {"ok", "KernelAlreadyExists"} => last.name \notin DOMAIN kernels

C2_Witness ==
  /\ last.op = "addKernel"
  /\ last.err = "PipelineBuildFailed"
  /\ last.name \notin DOMAIN kernels
  /\ DOMAIN kernels # {}

(* C3: in a successful runSingleKernel the host-to-device barrier comes     *)
(* before the dispatch, the dispatch before the device-to-host barrier, and *)
(* the sequence holding them is submitted and waited for before the call    *)
(* returns.                                                                 *)
RunOk == last.op = "runSingleKernel" /\ last.err = "ok"

C3_BarrierDispatchBarrierReturn ==
  RunOk =>
    LET e == last.events
        pre == Pos(e, "vkCmdPipelineBarrier/HostToCompute")
        run == Pos(e, "vkCmdDispatch")
        post == Pos(e, "vkCmdPipelineBarrier/ComputeToHost")
        sub == Pos(e, "vkQueueSubmit")
        wait == Pos(e, "vkWaitForFences")
    IN /\ 0 < pre /\ pre < run /\ run < post /\ post < sub /\ sub < wait
       /\ e[wait][2] # NULL
       /\ LastPos(e, "vkCmdPipelineBarrier/HostToCompute") = pre
       /\ LastPos(e, "vkCmdDispatch") = run
       /\ LastPos(e, "vkCmdPipelineBarrier/ComputeToHost") = post

C3_Witness ==
  /\ RunOk
  /\ Has(last.events, "vkCmdDispatch")
  /\ Has(last.events, "vkCmdPipelineBarrier/ComputeToHost")

(* C9: when addKernel fails after it has created device objects, every      *)
(* object it created has been destroyed when the error reaches the caller.  *)
RECURSIVE CountEvents(_, _, _)
CountEvents(e, tags, i) ==
  IF i > Len(e) THEN 0
  ELSE (IF e[i][1] \in tags /\ e[i][2] # NULL THEN 1 ELSE 0) + CountEvents(e, tags, i + 1)

KernelCreates ==
  {"vkCreateDescriptorSetLayout", "vkCreatePipelineLayout", "vkCreateShaderModule",
   "vkCreateComputePipelines"}

KernelDestroys ==
  {"vkDestroyDescriptorSetLayout", "vkDestroyPipelineLayout", "vkDestroyShaderModule",
   "vkDestroyPipeline"}

C9_FailedAddKernelReleasesObjects ==
  (last.op = "addKernel" /\ last.err # "ok") =>
    CountEvents(last.events, KernelCreates, 1) = CountEvents(last.events, KernelDestroys, 1)

(* C10: a failed runSingleKernel or addKernel leaves every registered       *)
(* buffer entry, its memory, and every registered kernel as they were.      *)
FailedKernelCall ==
  /\ last'.op \in {"runSingleKernel", "addKernel"}
  /\ last'.err # "ok"

C10_FailedKernelCallKeepsRegistries ==
  [][FailedKernelCall =>
       /\ buffers' = buffers
       /\ kernels' = kernels
       /\ DOMAIN mem' = DOMAIN mem
       /\ \A k \in Kinds : objects'[k] >= objects[k]]_vars

C10_Witness ==
  /\ last.op = "runSingleKernel"
  /\ last.err = "vkQueueSubmit"
  /\ DOMAIN kernels = {"copy", "sparse"}
  /\ \A n \in BufferNames : n \in DOMAIN buffers /\ buffers[n].buffer # NULL

(* C4: a declared buffer keeps its access mode in every later state; a      *)
(* re-declaration with another access mode fails with AccessMismatch and    *)
(* changes nothing (no resize).                                             *)
Redeclared(a) ==
  /\ last'.op = "allocateBytes"
  /\ last'.name \in DOMAIN buffers
  /\ last'.access = a

C4_AccessImmutable ==
  [][/\ \A n \in DOMAIN buffers :
          n \in DOMAIN buffers' /\ buffers'[n].access = buffers[n].access
     /\ \A a \in Accesses :
          (Redeclared(a) /\ a # buffers[last'.name].access) =>
             /\ last'.err = "AccessMismatch"
             /\ last'.events = <<>>
             /\ buffers' = buffers
             /\ mem' = mem]_vars

C4_Witness ==
  /\ last.op = "allocateBytes"
  /\ last.err = "AccessMismatch"
  /\ last.pre.buffer # NULL
  /\ last.bytes \notin {0, last.pre.sizeBytes}
  /\ buffers[last.name] = last.pre
  /\ DOMAIN kernels # {}

(* C11 as stated: re-declaring an allocated buffer through the builder with *)
(* the same access and a different non-zero size keeps the old size and     *)
(* memory.                                                                  *)
DifferentSizeRedeclare ==
  /\ last.op = "allocateBytes"
  /\ last.pre.access = last.access
  /\ last.pre.buffer # NULL
  /\ last.pre.sizeBytes > 0
  /\ last.bytes \notin {0, last.pre.sizeBytes}

C11_RedeclareKeepsSize ==
  DifferentSizeRedeclare => (last.events = <<>> /\ EntryIntact)

(* C11 amended: the builder is declare followed by alloc_or_resize, so such *)
(* a re-declaration destroys the old memory first and, when the allocator   *)
(* accepts the request, leaves the entry with the new size and a fresh      *)
(* allocation of that size; the size changes without any resizeBytes call.  *)
C11_RedeclareReallocates ==
  DifferentSizeRedeclare =>
    /\ Len(last.events) = 2
    /\ last.events[1] = <<"vmaDestroyBuffer", last.pre.buffer>>
    /\ last.events[2][1] = "vmaCreateBuffer"
    /\ last.err = "ok" =>
         /\ buffers[last.name].sizeBytes = last.bytes
         /\ buffers[last.name].access = last.pre.access
         /\ last.events[2] = <<"vmaCreateBuffer", buffers[last.name].buffer>>
         /\ buffers[last.name].buffer \in DOMAIN mem
         /\ Len(mem[buffers[last.name].buffer]) = last.bytes

C11_Witness ==
  /\ DifferentSizeRedeclare
  /\ last.err = "ok"
  /\ last.pre.sizeBytes = 1 /\ last.preData = <<1>>
  /\ buffers[last.name].sizeBytes = MaxSize

(* C12: when allocateBytes(n), n > 0, for a name not yet declared fails     *)
(* because the allocator rejects the request, the name is not in the buffer *)
(* registry afterwards.                                                     *)
C12_FailedFirstAllocationLeavesNoEntry ==
  (last.op = "allocateBytes" /\ last.err = "AllocationFailed" /\ last.pre = NoEntry)
    => last.name \notin DOMAIN buffers

(* C13 as stated: runSingleKernel on a registered kernel whose metadata     *)
(* names a buffer that was never declared fails with MissingBuffer (device  *)
(* failures aside), submits nothing and changes nothing.                    *)
RunCall == last'.op = "runSingleKernel" /\ last'.name \in DOMAIN kernels

DeviceFailed(err) == err \in RunFailures \ {"none"}

BindingsOf(kernelName) == get_module(kernelName).buffers

Undeclared(kernelName) ==
  \E i \in 1..Len(BindingsOf(kernelName)) :
    BindingsOf(kernelName)[i].name \notin DOMAIN buffers

NothingSubmittedOrChanged ==
  /\ ~Has(last'.events, "vkQueueSubmit")
  /\ buffers' = buffers
  /\ mem' = mem
  /\ kernels' = kernels
  /\ objects' = objects
  /\ inflight' = inflight

C13_UndeclaredBufferIsMissingBuffer ==
  [][(RunCall /\ Undeclared(last'.name) /\ ~DeviceFailed(last'.err)) =>
       (last'.err = "MissingBuffer" /\ NothingSubmittedOrChanged)]_vars

(* C13 amended: the bindings are resolved in metadata order, so the call    *)
(* fails with MissingBuffer when the first binding that cannot be resolved  *)
(* names an undeclared buffer (an earlier declared but unallocated buffer   *)
(* makes it fail with Unallocated instead); in both cases nothing is        *)
(* submitted and kernel, buffers and device objects are unchanged.  When    *)
(* every named buffer is declared and allocated the run succeeds.           *)
Allocated(name) == name \in DOMAIN buffers /\ buffers[name].buffer # NULL

FirstUnresolvedIsUndeclared(kernelName) ==
  \E i \in 1..Len(BindingsOf(kernelName)) :
    /\ BindingsOf(kernelName)[i].name \notin DOMAIN buffers
    /\ \A j \in 1..(i - 1) : Allocated(BindingsOf(kernelName)[j].name)

AllAllocated(kernelName) ==
  \A i \in 1..Len(BindingsOf(kernelName)) : Allocated(BindingsOf(kernelName)[i].name)

C13_FirstUnresolvedDecides ==
  [][(RunCall /\ ~DeviceFailed(last'.err)) =>
       /\ FirstUnresolvedIsUndeclared(last'.name) =>
            (last'.err = "MissingBuffer" /\ NothingSubmittedOrChanged)
       /\ (Undeclared(last'.name) /\ ~FirstUnresolvedIsUndeclared(last'.name)) =>
            (last'.err = "Unallocated" /\ NothingSubmittedOrChanged)
       /\ AllAllocated(last'.name) => last'.err = "ok"]_vars

C13_Witness ==
  /\ last.op = "runSingleKernel"
  /\ last.err = "MissingBuffer"
  /\ last.name = "copy"
  /\ "copy" \in DOMAIN kernels
  /\ Allocated("A")
  /\ "B" \notin DOMAIN buffers

(* C14: runSingleKernel with a name that is not in the kernel registry      *)
(* fails with UnknownKernel; it makes no device call at all, so nothing is  *)
(* submitted and no transient device object is created.                     *)
C14_UnknownKernelSubmitsNothing ==
  [][(last'.op = "runSingleKernel" /\ last'.name \notin DOMAIN kernels) =>
       /\ last'.err = "UnknownKernel"
       /\ last'.events = <<>>
       /\ NothingSubmittedOrChanged]_vars

C14_Witness ==
  /\ last.op = "runSingleKernel"
  /\ last.err = "UnknownKernel"
  /\ last.name = "copy"
  /\ "sparse" \in DOMAIN kernels
  /\ Allocated("A") /\ Allocated("B")

(* C15: runSingleKernel fails with LayoutMismatch whenever the number of    *)
(* binding layouts stored for the kernel differs from max(set)+1 (0 without *)
(* bindings) of the metadata at call time; no transient pool is created and *)
(* nothing is submitted.                                                    *)
SetsOf(bs) == { bs[i].set : i \in 1..Len(bs) }

MaxSetPlusOne(bs) ==
  IF bs = <<>> THEN 0
  ELSE (CHOOSE hi \in SetsOf(bs) : \A x \in SetsOf(bs) : x <= hi) + 1

Drifted(kernelName) ==
  Len(kernels[kernelName].setLayouts) # MaxSetPlusOne(BindingsOf(kernelName))

C15_LayoutMismatchBeforePool ==
  [][RunCall =>
       /\ Drifted(last'.name) =>
            /\ last'.err = "LayoutMismatch"
            /\ last'.events = <<>>
            /\ NothingSubmittedOrChanged
       /\ ~Drifted(last'.name) => last'.err # "LayoutMismatch"]_vars

C15_Witness ==
  /\ last.op = "runSingleKernel"
  /\ last.err = "LayoutMismatch"
  /\ Len(kernels["copy"].setLayouts) = 3
  /\ Len(meta["copy"]) = 2
  /\ Allocated("A") /\ Allocated("B")

(* C16: a successful addKernel stores exactly max(set)+1 binding layouts (0 *)
(* for an empty list), creating one layout per set index in order, each     *)
(* with the binding indices of its set in ascending order and an empty one  *)
(* for every unused index; sets {0,2} give 3 layouts, the second empty.     *)
LayoutEvents(e) ==
  SelectSeq(e, LAMBDA x : x[1] = "vkCreateDescriptorSetLayout")

BindingsAt(bs, set) == { bs[i].binding : i \in { j \in 1..Len(bs) : bs[j].set = set } }

Ascending(seq) == \A i \in 1..(Len(seq) - 1) : seq[i] < seq[i + 1]

Range(seq) == { seq[i] : i \in 1..Len(seq) }

AddOk == last.op = "addKernel" /\ last.err = "ok"

C16_OneLayoutPerSetIndex ==
  AddOk =>
    LET bs == BindingsOf(last.name)
        made == LayoutEvents(last.events)
    IN /\ Len(kernels[last.name].setLayouts) = MaxSetPlusOne(bs)
       /\ \A i \in 1..MaxSetPlusOne(bs) : kernels[last.name].setLayouts[i] # NULL
       /\ Len(made) = MaxSetPlusOne(bs)
       /\ \A i \in 1..Len(made) :
            /\ Range(made[i][3]) = BindingsAt(bs, i - 1)
            /\ Ascending(made[i][3])
       /\ SetsOf(bs) = {0, 2} =>
            (Len(made) = 3 /\ made[2][3] = <<>> /\ made[1][3] # <<>> /\ made[3][3] # <<>>)

C16_Witness ==
  /\ AddOk
  /\ SetsOf(BindingsOf(last.name)) = {0, 2}
  /\ Len(kernels[last.name].setLayouts) = 3
  /\ Len(BindingsOf(last.name)) = 3

(* C17: a call that submitted a command sequence returns normally only      *)
(* after the fence of that sequence was observed: the wait follows the      *)
(* submission, nothing is in flight when the call has returned, and a host  *)
(* read right after a successful runSingleKernel sees the kernel's writes.  *)
Submitted(call) ==
  /\ Has(call.events, "vkQueueSubmit")
  /\ call.events[Pos(call.events, "vkQueueSubmit")][2] # NULL

ReturnedAfterFence ==
  (last.err = "ok" /\ Submitted(last)) =>
    /\ Pos(last.events, "vkWaitForFences") > Pos(last.events, "vkQueueSubmit")
    /\ last.events[Pos(last.events, "vkWaitForFences")][2] # NULL
    /\ inflight = <<>>

ReadAfterRun ==
  /\ RunOk
  /\ last'.op = "getBytes"
  /\ last'.err = "ok"
  /\ buffers[last'.name].buffer \in last.events[Pos(last.events, "vkCmdDispatch")][2]

C17_ReturnsAfterCompletion ==
  [][/\ ReturnedAfterFence'
     /\ ReadAfterRun =>
          \A i \in 1..Len(last'.data) :
            last'.data[i] = last.events[Pos(last.events, "vkCmdDispatch")][3]]_vars

C17_Witness ==
  /\ last.op = "getBytes"
  /\ last.err = "ok"
  /\ last.name = "B"
  /\ last.data = <<1>>
  /\ "copy" \in DOMAIN kernels
  /\ inflight = <<>>

(* C18: with one caller, a command sequence is never submitted while an     *)
(* earlier one is still in flight, and at most one is in flight at any      *)
(* moment.                                                                  *)
C18_AtMostOneInFlight ==
  [][/\ Len(inflight') <= 1
     /\ Submitted(last') => inflight = <<>>]_vars

(* C19: setBytes(D, len) on an allocated buffer of size >= len writes D to  *)
(* the first len bytes and leaves the bytes beyond len unchanged; a         *)
(* getBytes(out, len) that follows immediately yields out = D.              *)
WriteOk(call) == call.op = "setBytes" /\ call.err = "ok"

C19_WriteReadRoundTrip ==
  [][/\ WriteOk(last') =>
          LET h == buffers[last'.name].buffer IN
          /\ Len(mem'[h]) = Len(mem[h])
          /\ \A i \in 1..Len(mem[h]) :
               mem'[h][i] = IF i <= last'.bytes THEN last'.data[i] ELSE mem[h][i]
     /\ (/\ WriteOk(last)
         /\ last'.op = "getBytes"
         /\ last'.name = last.name
         /\ last'.bytes = last.bytes) =>
          (last'.err = "ok" /\ last'.data = last.data)]_vars

C19_Witness ==
  /\ WriteOk(last)
  /\ last.data = <<1>>
  /\ last.preData = <<0, 1>>
  /\ mem[buffers[last.name].buffer] = <<1, 1>>

(* C20: zeroFill on a buffer without memory fails with Unallocated and      *)
(* submits nothing; on an allocated buffer a successful zeroFill submits    *)
(* exactly one fill over the whole current size through the one-time        *)
(* helper, and getBytes over the full size then returns only zero bytes.    *)
FillEvents(e) == SelectSeq(e, LAMBDA x : x[1] = "vkCmdFillBuffer")

FillOk(call) == call.op = "zeroFill" /\ call.err = "ok"

C20_ZeroFillWholeBuffer ==
  [][/\ (last'.op = "zeroFill" /\ last'.name \in DOMAIN buffers) =>
          LET state == buffers[last'.name] IN
          /\ state.buffer = NULL =>
               /\ last'.err = "Unallocated"
               /\ last'.events = <<>>
               /\ mem' = mem /\ objects' = objects /\ inflight' = inflight
          /\ state.buffer # NULL =>
               /\ last'.err # "Unallocated"
               /\ last'.err = "ok" =>
                    /\ FillEvents(last'.events) =
                         <<<<"vkCmdFillBuffer", state.buffer, state.sizeBytes>>>>
                    /\ Pos(last'.events, "vkCmdFillBuffer") < Pos(last'.events, "vkQueueSubmit")
                    /\ Pos(last'.events, "vkQueueSubmit") < Pos(last'.events, "vkWaitForFences")
                    /\ buffers' = buffers
     /\ (/\ FillOk(last)
         /\ last'.op = "getBytes"
         /\ last'.name = last.name
         /\ last'.bytes = buffers[last.name].sizeBytes) =>
          (last'.err = "ok" /\ last'.data = Zeros(last'.bytes))]_vars

C20_Witness ==
  /\ FillOk(last)
  /\ last.pre.sizeBytes = MaxSize
  /\ \A i \in 1..MaxSize : last.preData[i] = 1
  /\ mem[last.pre.buffer] = Zeros(MaxSize)

(* C21: setBytes and getBytes of length L on a declared buffer fail with    *)
(* Unallocated when the buffer has no memory (checked first), otherwise     *)
(* with SizeExceeded when L exceeds the current size, otherwise succeed (L  *)
(* equal to the size included); a failed call changes nothing.              *)
HostAccess(call) == call.op \in {"setBytes", "getBytes"}

C21_HostAccessErrors ==
  [][(HostAccess(last') /\ last'.name \in DOMAIN buffers) =>
       LET state == buffers[last'.name] IN
       /\ last'.err = IF state.buffer = NULL THEN "Unallocated"
                      ELSE IF last'.bytes > state.sizeBytes THEN "SizeExceeded"
                      ELSE "ok"
       /\ last'.err # "ok" => (mem' = mem /\ buffers' = buffers)
       /\ buffers' = buffers]_vars

C21_Witness ==
  /\ last.op = "setBytes"
  /\ last.err = "ok"
  /\ last.bytes = MaxSize
  /\ last.pre.sizeBytes = MaxSize
  /\ last.data # last.preData

(* C22 as stated: runSingleKernel on a registered kernel fails with         *)
(* Unallocated whenever a buffer named in its metadata is declared without  *)
(* memory; nothing is submitted and the transient pool is released.         *)
DeclaredWithoutMemory(name) == name \in DOMAIN buffers /\ buffers[name].buffer = NULL

NamesUnallocated(kernelName) ==
  \E i \in 1..Len(BindingsOf(kernelName)) :
    DeclaredWithoutMemory(BindingsOf(kernelName)[i].name)

PoolReleased(e) ==
  /\ Has(e, "vkCreateDescriptorPool")
  /\ Pos(e, "vkCreateDescriptorPool") < Pos(e, "vkDestroyDescriptorPool")

C22_UnallocatedBufferIsUnallocated ==
  [][(RunCall /\ NamesUnallocated(last'.name) /\ ~DeviceFailed(last'.err)) =>
       /\ last'.err = "Unallocated"
       /\ PoolReleased(last'.events)
       /\ NothingSubmittedOrChanged]_vars

(* C22 amended: the call fails with Unallocated when the first binding, in  *)
(* metadata order, that cannot be resolved names a declared buffer without  *)
(* memory; the pool created for the call is destroyed before the error      *)
(* reaches the caller and nothing is submitted or changed.                  *)
FirstUnresolvedIsUnallocated(kernelName) ==
  \E i \in 1..Len(BindingsOf(kernelName)) :
    /\ DeclaredWithoutMemory(BindingsOf(kernelName)[i].name)
    /\ \A j \in 1..(i - 1) : Allocated(BindingsOf(kernelName)[j].name)

C22_FirstUnresolvedUnallocated ==
  [][(RunCall /\ FirstUnresolvedIsUnallocated(last'.name) /\ ~DeviceFailed(last'.err)) =>
       /\ last'.err = "Unallocated"
       /\ PoolReleased(last'.events)
       /\ NothingSubmittedOrChanged]_vars

C22_Witness ==
  /\ last.op = "runSingleKernel"
  /\ last.err = "Unallocated"
  /\ last.name = "copy"
  /\ DeclaredWithoutMemory("A")
  /\ "B" \notin DOMAIN buffers
  /\ objects["DescriptorPool"] = 0

(* C23: addKernel of an unregistered name with metadata fails with          *)
(* DuplicateBinding exactly when two of its bindings have the same set and  *)
(* the same binding index; it then creates no device object and leaves the  *)
(* kernel registry unchanged.                                               *)
SharesSlot(bs) ==
  \E i, j \in 1..Len(bs) :
    i # j /\ <<bs[i].set, bs[i].binding>> = <<bs[j].set, bs[j].binding>>

FreshAdd ==
  /\ last'.op = "addKernel"
  /\ last'.name \notin DOMAIN kernels
  /\ last'.name \in DOMAIN meta

C23_DuplicateBindingExactly ==
  [][FreshAdd =>
       /\ last'.err = "DuplicateBinding" <=> SharesSlot(BindingsOf(last'.name))
       /\ last'.err = "DuplicateBinding" =>
            /\ last'.events = <<>>
            /\ kernels' = kernels
            /\ objects' = objects]_vars

C23_Witness ==
  /\ last.op = "addKernel"
  /\ last.err = "DuplicateBinding"
  /\ last.name = "dup"
  /\ "sparse" \in DOMAIN kernels

(* C26: in every successful runSingleKernel each buffer named in the        *)
(* metadata is covered by the barrier recorded before the dispatch and by   *)
(* the barrier recorded after it, all three in one command sequence.        *)
NamedHandles(kernelName) ==
  { buffers[BindingsOf(kernelName)[i].name].buffer : i \in 1..Len(BindingsOf(kernelName)) }

C26_BarriersCoverNamedBuffers ==
  RunOk =>
    LET e == last.events
        begin == Pos(e, "vkBeginCommandBuffer")
        pre == Pos(e, "vkCmdPipelineBarrier/HostToCompute")
        run == Pos(e, "vkCmdDispatch")
        post == Pos(e, "vkCmdPipelineBarrier/ComputeToHost")
        end == Pos(e, "vkEndCommandBuffer")
    IN /\ 0 < begin /\ begin < pre /\ pre < run /\ run < post /\ post < end
       /\ LastPos(e, "vkBeginCommandBuffer") = begin
       /\ NamedHandles(last.name) \subseteq e[pre][2]
       /\ NamedHandles(last.name) \subseteq e[post][2]
       /\ NULL \notin NamedHandles(last.name)

C26_Witness ==
  /\ RunOk
  /\ last.name = "sparse"
  /\ Cardinality(NamedHandles("sparse")) = 2

(* C28: between public operations every buffer entry has device memory      *)
(* exactly when its recorded size is non-zero, and the recorded size is the *)
(* size of its allocation.                                                  *)
C28_MemoryIffSized ==
  \A n \in DOMAIN buffers :
    /\ buffers[n].buffer # NULL <=> buffers[n].sizeBytes # 0
    /\ buffers[n].buffer # NULL =>
         /\ buffers[n].buffer \in DOMAIN mem
         /\ Len(mem[buffers[n].buffer]) = buffers[n].sizeBytes

(* C24: addKernel with a registered name fails with KernelAlreadyExists     *)
(* whatever the metadata and the binary are; it makes no device call and    *)
(* the stored kernel, its objects and the buffers are unchanged.            *)
C24_DuplicateAddRejectedFirst ==
  [][(last'.op = "addKernel" /\ last'.name \in DOMAIN kernels) =>
       /\ last'.err = "KernelAlreadyExists"
       /\ last'.events = <<>>
       /\ NothingSubmittedOrChanged]_vars

Complete_AtAdd(kernelName) ==
  /\ kernelName \in DOMAIN kernels
  /\ kernels[kernelName].pipeline # NULL
  /\ Len(kernels[kernelName].setLayouts) = 3

C24_Witness ==
  /\ last.op = "addKernel"
  /\ last.err = "KernelAlreadyExists"
  /\ SharesSlot(BindingsOf(last.name))
  /\ Complete_AtAdd(last.name)

(* C30: every binding-set write of runSingleKernel targets a (set, binding) *)
(* slot of the layouts built for the kernel by addKernel; a dispatch whose  *)
(* metadata differs from the metadata at add time is rejected.              *)
SlotExists(kernel, slot) ==
  /\ slot[1] + 1 \in 1..Len(kernel.layoutBindings)
  /\ slot[2] \in Range(kernel.layoutBindings[slot[1] + 1])

C30_WritesTargetExistingSlots ==
  (last.op = "runSingleKernel" /\ Has(last.events, "vkUpdateDescriptorSets")) =>
    LET written == last.events[Pos(last.events, "vkUpdateDescriptorSets")][3]
    IN \A i \in 1..Len(written) : SlotExists(kernels[last.name], written[i])

(* C29: no submitted command sequence refers to destroyed device memory:    *)
(* every handle a call's recorded commands refer to is live, and memory is  *)
(* destroyed only while no sequence in flight refers to it.                 *)
RefsOf(c) ==
  IF c[1] = "vkCmdFillBuffer" THEN {c[2]}
  ELSE IF c[1] \in {"vkCmdPipelineBarrier/HostToCompute", "vkCmdPipelineBarrier/ComputeToHost",
                    "vkCmdPipelineBarrier/TransferToCompute", "vkUpdateDescriptorSets"}
  THEN c[2]
  ELSE {}

CmdRefs(cmds) == UNION { RefsOf(cmds[i]) : i \in 1..Len(cmds) }

SubmitsLiveHandles ==
  Submitted(last') => CmdRefs(last'.events) \subseteq DOMAIN mem'

DestroysOnlyIdle ==
  \A i \in 1..Len(last'.events) :
    last'.events[i][1] = "vmaDestroyBuffer" =>
      \A k \in 1..Len(inflight) : last'.events[i][2] \notin CmdRefs(inflight[k])

C29_NoDestroyedHandleInSubmission ==
  [][SubmitsLiveHandles /\ DestroysOnlyIdle]_vars

(* C25: at teardown the kernels' objects are destroyed before any buffer    *)
(* memory, buffer memory before the command pool, the command pool before   *)
(* the allocator and the allocator before the device; every object live at  *)
(* teardown is destroyed exactly once.                                      *)
TeardownOrder(e) ==
  /\ \A i, j \in 1..Len(e) :
       (e[i][1] \in KernelDestroys /\ e[j][1] = "vmaDestroyBuffer") => i < j
  /\ \A i \in 1..Len(e) :
       e[i][1] \in KernelDestroys \cup {"vmaDestroyBuffer"} => i < Pos(e, "vkDestroyCommandPool")
  /\ 0 < Pos(e, "vkDestroyCommandPool")
  /\ Pos(e, "vkDestroyCommandPool") < Pos(e, "vmaDestroyAllocator")
  /\ Pos(e, "vmaDestroyAllocator") < Pos(e, "vkDestroyDevice")

BuffersDestroyedOnce(e) ==
  \A h \in DOMAIN mem :
    Cardinality({ i \in 1..Len(e) : e[i] = <<"vmaDestroyBuffer", h>> }) = 1

C25_TeardownOrderAndCompleteness ==
  [][last'.op = "~InstanceImpl" =>
       /\ TeardownOrder(last'.events)
       /\ BuffersDestroyedOnce(last'.events)
       /\ CountTag(last'.events, "vmaDestroyBuffer") = Cardinality(DOMAIN mem)
       /\ \A k \in Kinds : objects'[k] = 0]_vars

(* C27: the context is torn down only by the drop of the last handle, so a  *)
(* context with a live handle is never destroyed and no operation issued    *)
(* through a live handle runs against a destroyed context.                  *)
ApiOps ==
  {"allocateBytes", "resizeBytes", "zeroFill", "setBytes", "getBytes", "addKernel",
   "runSingleKernel"}

C27_TornDownAfterLastHandle ==
  [][/\ (ctx'.destroyed /\ ~ctx.destroyed) =>
          (ctx.useCount = 1 /\ ctx'.useCount = 0 /\ last'.op = "~InstanceImpl")
     /\ ctx'.useCount > 0 => ~ctx'.destroyed
     /\ last'.op \in ApiOps => (~ctx.destroyed /\ ~ctx'.destroyed)]_vars

C27_Witness ==
  /\ ctx.destroyed
  /\ ctx.useCount = 0
  /\ last.op = "~InstanceImpl"
  /\ Has(last.events, "vmaDestroyBuffer")
  /\ Has(last.events, "vkDestroyPipeline")

(* C31: whenever runSingleKernel returns after creating its transient       *)
(* descriptor pool, normally or with any error, that pool has been          *)
(* destroyed; no transient descriptor pool is live between operations.      *)
PoolCreated(e) ==
  \E i \in 1..Len(e) : e[i] = <<"vkCreateDescriptorPool", Valid>>

C31_TransientPoolAlwaysDestroyed ==
  [][(RunCall /\ PoolCreated(last'.events)) =>
       /\ PoolReleased(last'.events)
       /\ objects'["DescriptorPool"] = 0]_vars

(* C32: whenever the one-time command helper returns, normally or with an   *)
(* error at any of its steps, the command buffer it allocated has been      *)
(* freed and the fence it created has been destroyed; no transient command  *)
(* buffer or fence is outstanding between operations.                       *)
Made(e, tag) == \E i \in 1..Len(e) : e[i] = <<tag, Valid>>

Paired(e, create, destroy) ==
  Made(e, create) => Pos(e, create) < Pos(e, destroy)

C32_CommandBufferAndFenceReleased ==
  [][Made(last'.events, "vkAllocateCommandBuffers") =>
       /\ Paired(last'.events, "vkAllocateCommandBuffers", "vkFreeCommandBuffers")
       /\ Paired(last'.events, "vkCreateFence", "vkDestroyFence")
       /\ objects'["CommandBuffer"] = 0
       /\ objects'["Fence"] = 0]_vars

====
